---------------------------- MODULE Spec2Model ----------------------------
(***************************************************************************)
(* The DT protocol of src/server.py and src/client.py.                     *)
(*                                                                         *)
(* Two programs are modelled.  Spec is the server process (startup, then   *)
(* the select loop) fed by an environment that delivers datagrams to its   *)
(* three sockets.  SpecClient is one client invocation fed by an           *)
(* environment that answers its request with a packet, a timeout or an     *)
(* error.  SpecAnyText is the server with the rendered text left open (any *)
(* text the table renders, or a longer one): it has every behaviour of     *)
(* Spec and more, and is used only to establish safety properties.         *)
(* SpecFatal is Spec in an environment where select() can raise, SpecBurst *)
(* is the server fed with several datagrams at a time, and SpecClientLive  *)
(* is SpecClient with the fairness of a sequential program.                *)
(*                                                                         *)
(* Python strings are sequences of code points, bytes objects are          *)
(* sequences of numbers in 0..255.  A Python index i is i+1 here.          *)
(***************************************************************************)
EXTENDS Integers, Sequences, FiniteSets, TLC

VARIABLES
    \* ---- server process (src/server.py)
    s_pc,        \* position of the server in main()
    s_argv,      \* sys.argv[1:], the command-line arguments
    ports,       \* Server.ports: the argument strings, then their int values
    sockets,     \* Server.sockets: list of socket handles
    ensock,      \* Server.ensock  (0 is None)
    masock,      \* Server.masock
    gersock,     \* Server.gersock
    sockstate,   \* per handle: state of the OS socket, port bound, closes
    inbox,       \* per handle: datagrams queued by the network
    readable,    \* the list select() returned, not yet iterated
    last,        \* what the loop did with the datagram it handled last
    droppedInvalid, \* an invalid datagram has been dropped by the loop
    s_exit,      \* exit status and message of the server process
    \* ---- client process (src/client.py)
    c_pc,        \* position of the client in main()
    c_args,      \* Client.args = sys.argv (script name first)
    c_request_type, \* Client.request_type (0 is None)
    c_port,      \* Client.port (-1 is None)
    c_address,   \* Client.address ("" is None)
    c_sock,      \* Client.sock: state of the OS socket, its timeout, and the
                 \* calls of recvfrom and close made on it
    c_sent,      \* datagrams the client handed to sendto
    c_recv,      \* what recvfrom returned or raised
    c_out,       \* lines printed on stdout
    c_exit       \* exit status and message of the client process

svars == <<s_pc, s_argv, ports, sockets, ensock, masock, gersock, sockstate,
           inbox, readable, last, droppedInvalid, s_exit>>
cvars == <<c_pc, c_args, c_request_type, c_port, c_address, c_sock, c_sent,
           c_recv, c_out, c_exit>>
vars == <<svars, cvars>>

---------------------------------------------------------------------------
(* Program constants *)

\* 0x36FB
MAGIC_NUM == 14075
REQUEST_DATE == 1
REQUEST_TIME == 2
\* packet_type of a DT-Request / DT-Response
DT_REQUEST == 1
DT_RESPONSE == 2
\* the guard on len(response) in the loop
MAX_RESPONSE_LEN == 255
\* port range accepted on the command line
MIN_PORT == 1024
MAX_PORT == 64000
\* header bytes of a DT-Response the client requires
MIN_RESPONSE_LEN == 13
MAX_YEAR == 2100
\* the buffer size given to recvfrom
RECV_BUFSIZE == 1024

---------------------------------------------------------------------------
(* Bounds of the model *)

\* datagrams queued on the server's sockets at one time
MaxPending == 1

\* datagrams queued on the server's sockets at one time in a burst
MaxBurst == 2

---------------------------------------------------------------------------
(* Integers, bytes and strings as Python computes them *)

RECURSIVE Pow256(_)
Pow256(w) == IF w = 0 THEN 1 ELSE 256 * Pow256(w - 1)

\* int.to_bytes(width, 'big') raises OverflowError when n does not fit
Fits(n, width) == n >= 0 /\ n < Pow256(width)

\* n.to_bytes(width, 'big')
to_bytes(n, width) ==
    [i \in 1..width |-> (n \div Pow256(width - i)) % 256]

Reverse(b) == [i \in 1..Len(b) |-> b[Len(b) + 1 - i]]

\* int.from_bytes(b, 'big')
RECURSIVE from_bytes(_)
from_bytes(b) ==
    IF b = <<>> THEN 0
    ELSE 256 * from_bytes(SubSeq(b, 1, Len(b) - 1)) + b[Len(b)]

\* recvfrom(1024): at most the first 1024 bytes of the datagram
recvfrom(datagram) ==
    IF Len(datagram) > RECV_BUFSIZE THEN SubSeq(datagram, 1, RECV_BUFSIZE) ELSE datagram

\* (hi << 8) + lo
Shift8Add(hi, lo) == hi * 256 + lo

\* str(n) for n >= 0: decimal digits, no padding
RECURSIVE Str(_)
Str(n) == IF n < 10 THEN <<48 + n>> ELSE Str(n \div 10) \o <<48 + (n % 10)>>

\* f"{n:02}": decimal digits, zero-padded to width 2
Pad2(n) == IF n < 10 THEN <<48>> \o Str(n) ELSE Str(n)

\* str.lower() on the letters A-Z
lower(s) == [i \in 1..Len(s) |-> IF s[i] >= 65 /\ s[i] <= 90 THEN s[i] + 32 ELSE s[i]]

\* UTF-8 encoding of one code point (all code points of the program are
\* below U+10000)
Utf8Char(cp) ==
    IF cp < 128 THEN <<cp>>
    ELSE IF cp < 2048 THEN <<192 + (cp \div 64), 128 + (cp % 64)>>
    ELSE <<224 + (cp \div 4096), 128 + ((cp \div 64) % 64), 128 + (cp % 64)>>

\* str.encode('utf-8')
RECURSIVE encode_utf8(_)
encode_utf8(s) ==
    IF s = <<>> THEN <<>>
    ELSE IF Len(s) = 1 THEN Utf8Char(s[1])
    ELSE LET mid == Len(s) \div 2
         IN  encode_utf8(SubSeq(s, 1, mid)) \o encode_utf8(SubSeq(s, mid + 1, Len(s)))

IsCont(b) == b >= 128 /\ b <= 191

\* number of bytes of the well-formed UTF-8 sequence that starts b, or 0
\* when b does not start with one (bytes.decode('utf-8'), strict)
Utf8Lead(b) ==
    IF b = <<>> THEN 0
    ELSE IF b[1] < 128 THEN 1
    ELSE IF b[1] >= 194 /\ b[1] <= 223
        THEN IF Len(b) >= 2 /\ IsCont(b[2]) THEN 2 ELSE 0
    ELSE IF b[1] >= 224 /\ b[1] <= 239
        THEN IF /\ Len(b) >= 3
                /\ IsCont(b[2]) /\ IsCont(b[3])
                /\ (b[1] = 224 => b[2] >= 160)
                /\ (b[1] = 237 => b[2] <= 159)
             THEN 3 ELSE 0
    ELSE IF b[1] >= 240 /\ b[1] <= 244
        THEN IF /\ Len(b) >= 4
                /\ IsCont(b[2]) /\ IsCont(b[3]) /\ IsCont(b[4])
                /\ (b[1] = 240 => b[2] >= 144)
                /\ (b[1] = 244 => b[2] <= 143)
             THEN 4 ELSE 0
    ELSE 0

Utf8CodePoint(b, n) ==
    IF n = 1 THEN b[1]
    ELSE IF n = 2 THEN (b[1] - 192) * 64 + (b[2] - 128)
    ELSE IF n = 3 THEN (b[1] - 224) * 4096 + (b[2] - 128) * 64 + (b[3] - 128)
    ELSE (b[1] - 240) * 262144 + (b[2] - 128) * 4096 + (b[3] - 128) * 64 + (b[4] - 128)

\* bytes.decode('utf-8'): [ok |-> FALSE] is UnicodeDecodeError
RECURSIVE decode_utf8(_)
decode_utf8(b) ==
    IF b = <<>> THEN [ok |-> TRUE, text |-> <<>>]
    ELSE LET n == Utf8Lead(b) IN
         IF n = 0 THEN [ok |-> FALSE, text |-> <<>>]
         ELSE LET rest == decode_utf8(SubSeq(b, n + 1, Len(b))) IN
              IF rest.ok
              THEN [ok |-> TRUE, text |-> <<Utf8CodePoint(b, n)>> \o rest.text]
              ELSE rest

IsDigit(c) == c >= 48 /\ c <= 57

\* str.strip() of the blanks int() ignores around a number
RECURSIVE lstrip(_)
lstrip(s) == IF s # <<>> /\ Head(s) = 32 THEN lstrip(Tail(s)) ELSE s
RECURSIVE rstrip(_)
rstrip(s) ==
    IF s # <<>> /\ s[Len(s)] = 32 THEN rstrip(SubSeq(s, 1, Len(s) - 1)) ELSE s

\* digits with single underscores between them
RECURSIVE DigitsOk(_, _)
DigitsOk(s, prevDigit) ==
    IF s = <<>> THEN prevDigit
    ELSE IF IsDigit(Head(s)) THEN DigitsOk(Tail(s), TRUE)
    ELSE IF Head(s) = 95 THEN prevDigit /\ DigitsOk(Tail(s), FALSE)
    ELSE FALSE

RECURSIVE DigitsVal(_, _)
DigitsVal(s, acc) ==
    IF s = <<>> THEN acc
    ELSE IF Head(s) = 95 THEN DigitsVal(Tail(s), acc)
    ELSE DigitsVal(Tail(s), 10 * acc + (Head(s) - 48))

\* int(s) of a str over the characters blank + - _ 0-9 and letters:
\* [ok |-> FALSE] is ValueError
int(s) ==
    LET t == rstrip(lstrip(s))
        signed == t # <<>> /\ Head(t) \in {43, 45}
        d == IF signed THEN Tail(t) ELSE t
    IN  IF d # <<>> /\ DigitsOk(d, FALSE)
        THEN [ok |-> TRUE,
              val |-> IF signed /\ Head(t) = 45 THEN 0 - DigitsVal(d, 0)
                      ELSE DigitsVal(d, 0)]
        ELSE [ok |-> FALSE, val |-> 0]

---------------------------------------------------------------------------
(* server.py: the localized text and the response packet *)

MONTH_NAMES ==
    [l \in {"English", "Maori", "German"} |->
       IF l = "English" THEN <<
        <<74, 97, 110, 117, 97, 114, 121>>,                    \* January
        <<70, 101, 98, 114, 117, 97, 114, 121>>,               \* February
        <<77, 97, 114, 99, 104>>,                              \* March
        <<65, 112, 114, 105, 108>>,                            \* April
        <<77, 97, 121>>,                                       \* May
        <<74, 117, 110, 101>>,                                 \* June
        <<74, 117, 108, 121>>,                                 \* July
        <<65, 117, 103, 117, 115, 116>>,                       \* August
        <<83, 101, 112, 116, 101, 109, 98, 101, 114>>,         \* September
        <<79, 99, 116, 111, 98, 101, 114>>,                    \* October
        <<78, 111, 118, 101, 109, 98, 101, 114>>,              \* November
        <<68, 101, 99, 101, 109, 98, 101, 114>> >>             \* December
       ELSE IF l = "Maori" THEN <<
        <<75, 111, 104, 105, 45, 116, 257, 116, 101, 97>>,     \* Kohi-ta(257)tea
        <<72, 117, 105, 45, 116, 97, 110, 103, 117, 114, 117>>,\* Hui-tanguru
        <<80, 111, 117, 116, 363, 45, 116, 101, 45, 114, 97, 110, 103, 105>>, \* Poutu(363)-te-rangi
        <<80, 97, 101, 110, 103, 97, 45, 119, 104, 257, 119, 104, 257>>,      \* Paenga-wha(257)wha(257)
        <<72, 97, 114, 97, 116, 117, 97>>,                     \* Haratua
        <<80, 105, 112, 105, 114, 105>>,                       \* Pipiri
        <<72, 333, 110, 103, 105, 110, 103, 111, 105>>,        \* Ho(333)ngingoi
        <<72, 101, 114, 101, 45, 116, 117, 114, 105, 45, 107, 333, 107, 257>>, \* Here-turi-ko(333)ka(257)
        <<77, 97, 104, 117, 114, 117>>,                        \* Mahuru
        <<87, 104, 105, 114, 105, 110, 103, 97, 45, 257, 45, 110, 117, 107, 117>>,      \* Whiringa-a(257)-nuku
        <<87, 104, 105, 114, 105, 110, 103, 97, 45, 257, 45, 114, 97, 110, 103, 105>>,  \* Whiringa-a(257)-rangi
        <<72, 97, 107, 105, 104, 101, 97>> >>                  \* Hakihea
       ELSE <<
        <<74, 97, 110, 117, 97, 114>>,                         \* Januar
        <<70, 101, 98, 114, 117, 97, 114>>,                    \* Februar
        <<77, 228, 114, 122>>,                                 \* Ma(228)rz
        <<65, 112, 114, 105, 108>>,                            \* April
        <<77, 97, 105>>,                                       \* Mai
        <<74, 117, 110, 105>>,                                 \* Juni
        <<74, 117, 108, 105>>,                                 \* Juli
        <<65, 117, 103, 117, 115, 116>>,                       \* August
        <<83, 101, 112, 116, 101, 109, 98, 101, 114>>,         \* September
        <<79, 107, 116, 111, 98, 101, 114>>,                   \* Oktober
        <<78, 111, 118, 101, 109, 98, 101, 114>>,              \* November
        <<68, 101, 122, 101, 109, 98, 101, 114>> >>]           \* Dezember

\* the literal parts of the six f-strings
TodaysDateIs == <<84, 111, 100, 97, 121, 39, 115, 32, 100, 97, 116, 101, 32, 105, 115, 32>>
KoTeRaOTeneiRaKo == <<75, 111, 32, 116, 101, 32, 114, 257, 32, 111, 32, 116, 275, 110, 101, 105, 32, 114, 257, 32, 107, 111, 32>>
HeuteIstDer == <<72, 101, 117, 116, 101, 32, 105, 115, 116, 32, 100, 101, 114, 32>>
TheCurrentTimeIs == <<84, 104, 101, 32, 99, 117, 114, 114, 101, 110, 116, 32, 116, 105, 109, 101, 32, 105, 115, 32>>
KoTeWaOTeneiWa == <<75, 111, 32, 116, 101, 32, 119, 257, 32, 111, 32, 116, 275, 110, 101, 105, 32, 119, 257, 32>>
DieUhrzeitIst == <<68, 105, 101, 32, 85, 104, 114, 122, 101, 105, 116, 32, 105, 115, 116, 32>>

\* tell_it_what_it_is(date_time, language, request_type); none is the
\* function falling off its end (it returns None)
tell_it_what_it_is(date_time, language, request_type) ==
    LET month  == MONTH_NAMES[language][date_time.month]
        day    == date_time.day
        year   == date_time.year
        hour   == date_time.hour
        minute == date_time.minute
        Some(t) == [none |-> FALSE, text |-> t]
    IN  IF request_type = REQUEST_DATE THEN
            IF language = "English"
            THEN Some(TodaysDateIs \o month \o <<32>> \o Str(day) \o <<44, 32>> \o Str(year))
            ELSE IF language = "Maori"
            THEN Some(KoTeRaOTeneiRaKo \o month \o <<32>> \o Str(day) \o <<44, 32>> \o Str(year))
            ELSE Some(HeuteIstDer \o Str(day) \o <<46, 32>> \o month \o <<32>> \o Str(year))
        ELSE IF request_type = REQUEST_TIME THEN
            IF language = "English"
            THEN Some(TheCurrentTimeIs \o Pad2(hour) \o <<58>> \o Pad2(minute))
            ELSE IF language = "Maori"
            THEN Some(KoTeWaOTeneiWa \o Pad2(hour) \o <<58>> \o Pad2(minute))
            ELSE Some(DieUhrzeitIst \o Pad2(hour) \o <<58>> \o Pad2(minute))
        ELSE [none |-> TRUE, text |-> <<>>]

\* lang_code of create_response
lang_code_of(language) ==
    IF language = "English" THEN 1 ELSE IF language = "Maori" THEN 2 ELSE 3

\* the length taken of the text, not of its encoding
text_length_chars(textual_representation) == Len(textual_representation)

\* length of create_response: the number of bytes of the encoded text
text_length(textual_representation) == Len(encode_utf8(textual_representation))

\* create_response from the rendered text on: the fields, appended in
\* order.  raised names the exception to_bytes raises when a field does not
\* fit its width.
encode_response(language, current_time, textual_representation) ==
    LET length == text_length(textual_representation)
    IN  IF ~Fits(current_time.year, 2) \/ ~Fits(length, 1)
        THEN [raised |-> "OverflowError", response |-> <<>>]
        ELSE [raised |-> "",
              response |->
                 to_bytes(MAGIC_NUM, 2) \o to_bytes(DT_RESPONSE, 2)
                 \o to_bytes(lang_code_of(language), 2)
                 \o to_bytes(current_time.year, 2)
                 \o to_bytes(current_time.month, 1)
                 \o to_bytes(current_time.day, 1)
                 \o to_bytes(current_time.hour, 1)
                 \o to_bytes(current_time.minute, 1)
                 \o to_bytes(length, 1)
                 \o encode_utf8(textual_representation)]

\* create_response(language, request_type) at the time current_time
create_response(language, request_type, current_time) ==
    LET t == tell_it_what_it_is(current_time, language, request_type)
    IN  IF t.none THEN [raised |-> "AttributeError", response |-> <<>>]
        ELSE encode_response(language, current_time, t.text)

\* valid_dt_request without its check of the packet type
valid_dt_request_no_type(packet) ==
    IF Len(packet) # 6
    THEN [ok |-> FALSE, log |-> "ERROR: Packet length incorrect for a DT_Request, dropping packet"]
    ELSE IF Shift8Add(packet[1], packet[2]) # MAGIC_NUM
    THEN [ok |-> FALSE, log |-> "ERROR: Packet magic number is incorrect, dropping packet"]
    ELSE IF Shift8Add(packet[5], packet[6]) \notin {REQUEST_DATE, REQUEST_TIME}
    THEN [ok |-> FALSE, log |-> "ERROR: Packet has invalid type, dropping packet"]
    ELSE [ok |-> TRUE, log |-> ""]

\* valid_dt_request checking the request kind before the magic number
valid_dt_request_kind_first(packet) ==
    IF Len(packet) # 6
    THEN [ok |-> FALSE, log |-> "ERROR: Packet length incorrect for a DT_Request, dropping packet"]
    ELSE IF Shift8Add(packet[5], packet[6]) \notin {REQUEST_DATE, REQUEST_TIME}
    THEN [ok |-> FALSE, log |-> "ERROR: Packet has invalid type, dropping packet"]
    ELSE IF Shift8Add(packet[1], packet[2]) # MAGIC_NUM
    THEN [ok |-> FALSE, log |-> "ERROR: Packet magic number is incorrect, dropping packet"]
    ELSE IF Shift8Add(packet[3], packet[4]) # DT_REQUEST
    THEN [ok |-> FALSE, log |-> "ERROR: Packet is not a DT_Request, dropping packet"]
    ELSE [ok |-> TRUE, log |-> ""]

\* valid_dt_request(packet): the result and the line it prints
valid_dt_request(packet) ==
    IF Len(packet) # 6
    THEN [ok |-> FALSE, log |-> "ERROR: Packet length incorrect for a DT_Request, dropping packet"]
    ELSE IF Shift8Add(packet[1], packet[2]) # MAGIC_NUM
    THEN [ok |-> FALSE, log |-> "ERROR: Packet magic number is incorrect, dropping packet"]
    ELSE IF Shift8Add(packet[3], packet[4]) # DT_REQUEST
    THEN [ok |-> FALSE, log |-> "ERROR: Packet is not a DT_Request, dropping packet"]
    ELSE IF Shift8Add(packet[5], packet[6]) \notin {REQUEST_DATE, REQUEST_TIME}
    THEN [ok |-> FALSE, log |-> "ERROR: Packet has invalid type, dropping packet"]
    ELSE [ok |-> TRUE, log |-> ""]

\* get_language with the Maori and German sockets taken for each other
get_language_swapped(sock) ==
    IF sock = ensock THEN "English"
    ELSE IF sock = gersock THEN "Maori"
    ELSE IF sock = masock THEN "German"
    ELSE "None"

\* get_language(sock): identity against the three stored handles
get_language(sock) ==
    IF sock = ensock THEN "English"
    ELSE IF sock = masock THEN "Maori"
    ELSE IF sock = gersock THEN "German"
    ELSE "None"

\* close_sockets closing only the socket appended last
close_sockets_last_only(state, socks) ==
    [h \in DOMAIN state |->
        IF socks # <<>> /\ socks[Len(socks)] = h
        THEN [state[h] EXCEPT !.state = "closed", !.closes = @ + 1]
        ELSE state[h]]

\* close_sockets(): the socket states after closing every socket of the list
close_sockets(state, socks) ==
    [h \in DOMAIN state |->
        IF \E i \in 1..Len(socks) : socks[i] = h
        THEN [state[h] EXCEPT !.state = "closed",
                              !.closes = @ + Cardinality({i \in 1..Len(socks) : socks[i] = h})]
        ELSE state[h]]

---------------------------------------------------------------------------
(* client.py: the request packet *)

\* the packet with its fields in little-endian order
request_packet_little(request_type) ==
    Reverse(to_bytes(MAGIC_NUM, 2)) \o Reverse(to_bytes(DT_REQUEST, 2))
    \o Reverse(to_bytes(request_type, 2))

\* create_and_send_packet: the packet it builds for request_type
request_packet(request_type) ==
    to_bytes(MAGIC_NUM, 2) \o to_bytes(DT_REQUEST, 2) \o to_bytes(request_type, 2)

---------------------------------------------------------------------------
(* The server's inputs *)

\* "5000" "05000" " 5001" "5001" "5002" "1023" "1024" "64000" "64001" "abc" "-5" "0"
P5000 == <<53, 48, 48, 48>>
P05000 == <<48, 53, 48, 48, 48>>
Pb5001 == <<32, 53, 48, 48, 49>>
P5001 == <<53, 48, 48, 49>>
P5002 == <<53, 48, 48, 50>>
P1023 == <<49, 48, 50, 51>>
P1024 == <<49, 48, 50, 52>>
P64000 == <<54, 52, 48, 48, 48>>
P64001 == <<54, 52, 48, 48, 49>>
Pabc == <<97, 98, 99>>
Pminus5 == <<45, 53>>
P0 == <<48>>

\* command lines the server is started with (sys.argv[1:])
ServerArgvs == {
    <<P1024, P5001, P64000>>,
    <<P5000, P05000, P5001>>,
    <<P5000, P5001, Pb5001>>,
    <<P5000, P5000, P5001>>,
    <<P5001, P5002, P5001>>,
    <<P5000, P5002, P5002>>,
    <<P1023, P5001, P5002>>,
    <<P5000, P64001, P5002>>,
    <<P5000, P5001, Pabc>>,
    <<Pminus5, P5001, P5002>>,
    <<P0, P5001, P5002>>,
    <<P5000, P5001>>,
    <<P5000, P5001, P5002, P5000>> }

\* values of datetime.datetime.now()
Time(y, mo, d, h, mi) == [year |-> y, month |-> mo, day |-> d, hour |-> h, minute |-> mi]
NoTime == Time(0, 0, 0, 0, 0)
Timestamps == {
    Time(1970, 1, 1, 0, 0),
    Time(2024, 11, 4, 9, 5),
    Time(2100, 3, 31, 23, 59),
    Time(2101, 8, 9, 10, 7),
    Time(9999, 11, 30, 12, 30) }
\* the clock when the loop does not read it
NoClock == Time(1970, 1, 1, 0, 0)

\* datagrams the network delivers to a server socket, with their sender
Dgram(d, a) == [data |-> d, address |-> a]
Arrivals ==
    { Dgram(request_packet(REQUEST_DATE), "A"), Dgram(request_packet(REQUEST_TIME), "B") }
    \cup { Dgram(d, "A") : d \in {
            <<54, 251, 0, 1, 0>>,           \* a request cut to 5 bytes
            <<54, 251, 0, 1, 0, 1, 0>>,     \* a request with a 7th byte
            <<54, 250, 0, 1, 0, 1>>,        \* magic 0x36FA
            <<54, 251, 0, 2, 0, 1>>,        \* packet type 2
            <<54, 251, 0, 1, 0, 0>>,        \* request kind 0
            <<54, 251, 0, 1, 0, 3>>,        \* request kind 3
            <<54, 251, 0, 1, 1, 1>>,        \* request kind 0x0101
            <<54, 250, 0, 2, 0, 3>>,        \* magic, type and kind wrong
            <<54, 250, 0, 2, 0>> } }        \* length, magic and type wrong

---------------------------------------------------------------------------
(* The server process *)

Handles == 1..3
NoSock == [state |-> "none", port |-> 0, closes |-> 0]
Running == [status |-> -1, msg |-> ""]
\* sys.exit(msg): status 1, msg on stderr
Exit(msg) == [status |-> 1, msg |-> msg]

NoLast == [outcome |-> "none", sock |-> 0, data |-> <<>>, address |-> "",
           language |-> "", request_type |-> 0, now |-> NoTime,
           response |-> <<>>, sendto |-> <<>>, log |-> <<>>]

Pending == Len(inbox[1]) + Len(inbox[2]) + Len(inbox[3])

ServerInit ==
    /\ s_pc = "main"
    /\ s_argv \in ServerArgvs
    /\ ports = <<>>
    /\ sockets = <<>>
    /\ ensock = 0 /\ masock = 0 /\ gersock = 0
    /\ sockstate = [h \in Handles |-> NoSock]
    /\ inbox = [h \in Handles |-> <<>>]
    /\ readable = <<>>
    /\ last = NoLast
    /\ droppedInvalid = FALSE
    /\ s_exit = Running

\* the server is not started (the client is checked alone)
ServerIdle ==
    /\ s_pc = "idle"
    /\ s_argv = <<>>
    /\ ports = <<>>
    /\ sockets = <<>>
    /\ ensock = 0 /\ masock = 0 /\ gersock = 0
    /\ sockstate = [h \in Handles |-> NoSock]
    /\ inbox = [h \in Handles |-> <<>>]
    /\ readable = <<>>
    /\ last = NoLast
    /\ droppedInvalid = FALSE
    /\ s_exit = Running

\* main(): the argument count, then Server(ports)
server_main ==
    /\ s_pc = "main"
    /\ IF Len(s_argv) + 1 # 4
       THEN /\ s_exit' = Exit("ERROR: Incorrect number of command line arguments")
            /\ s_pc' = "exited"
            /\ UNCHANGED ports
       ELSE /\ ports' = s_argv
            /\ s_pc' = "check_port"
            /\ UNCHANGED s_exit
    /\ UNCHANGED <<s_argv, sockets, ensock, masock, gersock, sockstate, inbox,
                   readable, last, droppedInvalid, cvars>>

\* the loop of check_port over the ports from index i on: "" when none exits
RECURSIVE port_loop(_, _)
port_loop(args, i) ==
    IF i > Len(args) THEN ""
    ELSE LET port == int(args[i]) IN
         IF ~port.ok THEN "ERROR: Given port is not a positive integer"
         ELSE IF port.val <= 0 THEN "ERROR: Given port is not a positive integer"
         ELSE IF ~(MIN_PORT <= port.val /\ port.val <= MAX_PORT)
              THEN "ERROR: Given port is not in the range [1024, 64000]"
         ELSE port_loop(args, i + 1)

\* check_port(): the message it exits with, "" when it returns
check_port(args) ==
    IF args[1] = args[2] \/ args[1] = args[3] \/ args[2] = args[3]
    THEN "ERROR: Duplicate ports given"
    ELSE port_loop(args, 1)

server_check_port ==
    /\ s_pc = "check_port"
    /\ LET msg == check_port(ports) IN
       IF msg # ""
       THEN /\ s_exit' = Exit(msg)
            /\ s_pc' = "exited"
            /\ UNCHANGED ports
       ELSE /\ ports' = [i \in 1..Len(ports) |-> int(ports[i]).val]
            /\ s_pc' = "bind_1"
            /\ UNCHANGED s_exit
    /\ UNCHANGED <<s_argv, sockets, ensock, masock, gersock, sockstate, inbox,
                   readable, last, droppedInvalid, cvars>>

BindPc == <<"bind_1", "bind_2", "bind_3">>

\* the port is bound by a socket of this process already
AddressInUse(port) ==
    \E h \in Handles : sockstate[h].state = "bound" /\ sockstate[h].port = port

\* open_and_bind_socket(), one language: socket(), append, bind.  created
\* and bindOk are the operating system's answers.
open_and_bind_socket(i, created, bindOk) ==
    /\ s_pc = BindPc[i]
    /\ IF ~created
       THEN \* socket.error: close_sockets(), "Socket creation failed"
            /\ sockstate' = close_sockets(sockstate, sockets)
            /\ sockets' = <<>>
            /\ s_exit' = Exit("ERROR: Socket creation failed")
            /\ s_pc' = "exited"
            /\ UNCHANGED <<ensock, masock, gersock>>
       ELSE /\ ensock' = IF i = 1 THEN i ELSE ensock
            /\ masock' = IF i = 2 THEN i ELSE masock
            /\ gersock' = IF i = 3 THEN i ELSE gersock
            /\ IF bindOk /\ ~AddressInUse(ports[i])
               THEN /\ sockstate' = [sockstate EXCEPT ![i] =
                                        [state |-> "bound", port |-> ports[i], closes |-> 0]]
                    /\ sockets' = Append(sockets, i)
                    /\ s_pc' = IF i = 3 THEN "select" ELSE BindPc[i + 1]
                    /\ UNCHANGED s_exit
               ELSE \* bind raised: close_sockets(), "Socket binding failed"
                    /\ sockstate' = close_sockets(
                                       [sockstate EXCEPT ![i] =
                                           [state |-> "open", port |-> 0, closes |-> 0]],
                                       Append(sockets, i))
                    /\ sockets' = <<>>
                    /\ s_exit' = Exit("ERROR: Socket binding failed")
                    /\ s_pc' = "exited"
    /\ UNCHANGED <<s_argv, ports, inbox, readable, last, droppedInvalid, cvars>>

\* the network queues a datagram on a bound socket
Arrive(h, dgram) ==
    /\ sockstate[h].state = "bound"
    /\ Pending < MaxPending
    /\ inbox' = [inbox EXCEPT ![h] = Append(@, dgram)]
    /\ UNCHANGED <<s_pc, s_argv, ports, sockets, ensock, masock, gersock,
                   sockstate, readable, last, droppedInvalid, s_exit, cvars>>

\* datagrams of a burst: a date request of sender A, a request of kind 3 of
\* sender B
BurstArrivals ==
    { Dgram(request_packet(REQUEST_DATE), "A"), Dgram(<<54, 251, 0, 1, 0, 3>>, "B") }

\* the network queues a datagram of a burst on a bound socket
ArriveBurst(h, dgram) ==
    /\ sockstate[h].state = "bound"
    /\ Pending < MaxBurst
    /\ inbox' = [inbox EXCEPT ![h] = Append(@, dgram)]
    /\ UNCHANGED <<s_pc, s_argv, ports, sockets, ensock, masock, gersock,
                   sockstate, readable, last, droppedInvalid, s_exit, cvars>>

\* the sockets of the list with a datagram queued, in the order of the list
RECURSIVE ready(_)
ready(socks) ==
    IF socks = <<>> THEN <<>>
    ELSE IF inbox[Head(socks)] # <<>> THEN <<Head(socks)>> \o ready(Tail(socks))
    ELSE ready(Tail(socks))

\* select(self.sockets, [], []): blocks until a socket is readable
server_select ==
    /\ s_pc = "select"
    /\ ready(sockets) # <<>>
    /\ readable' = ready(sockets)
    /\ s_pc' = "for"
    /\ UNCHANGED <<s_argv, ports, sockets, ensock, masock, gersock, sockstate,
                   inbox, last, droppedInvalid, s_exit, cvars>>

\* the guard with > for >=
too_long_off_by_one(response) == Len(response) > MAX_RESPONSE_LEN

\* the guard of the loop on the response it built
too_long(response) == Len(response) >= MAX_RESPONSE_LEN

\* the body of "for sock in readable" for one received datagram: what it
\* did (a value of last).  built is what create_response returned or raised,
\* sendOk whether sendto succeeded.
loop_body(sock, dgram, language, request_type, now, built, sendOk) ==
    LET valid == valid_dt_request(dgram.data)
        base == [NoLast EXCEPT !.sock = sock, !.data = dgram.data,
                               !.address = dgram.address]
        received == <<language, "received",
                      IF request_type = REQUEST_DATE THEN "date" ELSE "time",
                      "request from", dgram.address>>
        served == [base EXCEPT !.language = language, !.request_type = request_type,
                               !.now = now, !.log = <<received>>]
    IN  IF ~valid.ok
        THEN [base EXCEPT !.outcome = "dropped", !.log = << <<valid.log>> >>]
        ELSE IF built.raised # ""
        THEN [served EXCEPT !.outcome = "exit_exception"]
        ELSE IF too_long(built.response)
        THEN [served EXCEPT !.outcome = "exit_too_long", !.response = built.response]
        ELSE IF sendOk
        THEN [served EXCEPT !.outcome = "sent", !.response = built.response,
                            !.sendto = <<[sock |-> sock, packet |-> built.response,
                                          address |-> dgram.address]>>,
                            !.log = <<received, <<"Response sent">> >>]
        ELSE [served EXCEPT !.outcome = "send_error", !.response = built.response,
                            !.sendto = <<[sock |-> sock, packet |-> built.response,
                                          address |-> dgram.address]>>,
                            !.log = <<received, <<"ERROR: Sending failed, dropping packet">> >>]

\* terminate_loop with close_sockets() leaving self.sockets as it was, so
\* that "finally" closes the sockets again
terminate_loop_closes_twice(did, msg, caught) ==
    /\ last' = did
    /\ droppedInvalid' = (droppedInvalid \/ did.outcome = "dropped")
    /\ sockstate' = IF caught
                    THEN close_sockets(close_sockets(sockstate, sockets), sockets)
                    ELSE close_sockets(sockstate, sockets)
    /\ sockets' = <<>>
    /\ s_exit' = Exit(msg)
    /\ s_pc' = "exited"
    /\ readable' = <<>>

\* the loop is left by an exception: close_sockets() runs in the handler of
\* "except Exception" (when it is one) and again in "finally", then the
\* process exits with msg
terminate_loop(did, msg, caught) ==
    /\ last' = did
    /\ droppedInvalid' = (droppedInvalid \/ did.outcome = "dropped")
    /\ sockstate' = IF caught
                    THEN close_sockets(close_sockets(sockstate, sockets), <<>>)
                    ELSE close_sockets(sockstate, sockets)
    /\ sockets' = <<>>
    /\ s_exit' = Exit(msg)
    /\ s_pc' = "exited"
    /\ readable' = <<>>

\* continue_loop closing the socket whose recvfrom or sendto failed
continue_loop_closes_failed(did) ==
    /\ last' = did
    /\ droppedInvalid' = (droppedInvalid \/ did.outcome = "dropped")
    /\ readable' = Tail(readable)
    /\ s_pc' = IF Tail(readable) = <<>> THEN "select" ELSE "for"
    /\ IF did.outcome \in {"recv_error", "send_error"}
       THEN /\ sockstate' = close_sockets(sockstate, <<did.sock>>)
            /\ sockets' = SelectSeq(sockets, LAMBDA h : h # did.sock)
       ELSE UNCHANGED <<sockstate, sockets>>
    /\ UNCHANGED s_exit

\* the loop goes on with the next readable socket, or back to select
continue_loop(did) ==
    /\ last' = did
    /\ droppedInvalid' = (droppedInvalid \/ did.outcome = "dropped")
    /\ readable' = Tail(readable)
    /\ s_pc' = IF Tail(readable) = <<>> THEN "select" ELSE "for"
    /\ UNCHANGED <<sockstate, sockets, s_exit>>

\* after_body with an invalid datagram ending the process as an oversized
\* response does
after_body_exit_on_drop(did) ==
    IF did.outcome \in {"exit_too_long", "dropped"}
    THEN terminate_loop(did, "ERROR: dropping packet", FALSE)
    ELSE IF did.outcome = "exit_exception"
    THEN terminate_loop(did, "ERROR: exception", TRUE)
    ELSE continue_loop(did)

\* the state of the process after the loop body did `did`: sys.exit for an
\* oversized response passes "except Exception" and runs "finally"; any
\* other exception is caught by "except Exception"; everything else goes on
after_body(did) ==
    IF did.outcome = "exit_too_long"
    THEN terminate_loop(did, "ERROR: Text too long, dropping packet", FALSE)
    ELSE IF did.outcome = "exit_exception"
    THEN terminate_loop(did, "ERROR: exception", TRUE)
    ELSE continue_loop(did)

\* select() raises (OSError, ValueError): the exception reaches "except
\* Exception" of waiting_for_request, which closes the sockets and exits;
\* "finally" then calls close_sockets() on the emptied list
server_select_error ==
    /\ s_pc = "select"
    /\ terminate_loop(last, "ERROR: exception", TRUE)
    /\ UNCHANGED <<s_argv, ports, ensock, masock, gersock, inbox, cvars>>

\* the datagram at the head of readable's first socket is one the loop
\* answers: the clock and sendto matter only then
Answers(sock) ==
    inbox[sock] # <<>> /\ valid_dt_request(recvfrom(Head(inbox[sock]).data)).ok

\* one turn of "for sock in readable": recvfrom raises socket.error
server_recv_error ==
    /\ s_pc = "for"
    /\ readable # <<>>
    /\ after_body([NoLast EXCEPT !.outcome = "recv_error", !.sock = Head(readable),
                      !.log = << <<"ERROR: Receiving failed, dropping packet">> >>])
    /\ UNCHANGED <<s_argv, ports, ensock, masock, gersock, inbox, cvars>>

\* server_handle reading every datagram queued on the socket and answering
\* the first
server_handle_drains(now, sendOk) ==
    /\ s_pc = "for"
    /\ readable # <<>>
    /\ Answers(Head(readable)) \/ (now = NoClock /\ sendOk)
    /\ LET sock == Head(readable)
           dgram == [Head(inbox[sock]) EXCEPT !.data = recvfrom(@)]
           language == get_language(sock)
           request_type == IF Len(dgram.data) >= 6
                           THEN Shift8Add(dgram.data[5], dgram.data[6]) ELSE 0
       IN  /\ after_body(loop_body(sock, dgram, language, request_type, now,
                                   create_response(language, request_type, now),
                                   sendOk))
           /\ inbox' = [inbox EXCEPT ![sock] = <<>>]
    /\ UNCHANGED <<s_argv, ports, ensock, masock, gersock, cvars>>

\* one turn of "for sock in readable": recvfrom returns a datagram, then the
\* body.  now is datetime.now() in create_response, sendOk whether sendto
\* succeeded.
server_handle(now, sendOk) ==
    /\ s_pc = "for"
    /\ readable # <<>>
    /\ Answers(Head(readable)) \/ (now = NoClock /\ sendOk)
    /\ LET sock == Head(readable)
           dgram == [Head(inbox[sock]) EXCEPT !.data = recvfrom(@)]
           language == get_language(sock)
           request_type == IF Len(dgram.data) >= 6
                           THEN Shift8Add(dgram.data[5], dgram.data[6]) ELSE 0
       IN  /\ after_body(loop_body(sock, dgram, language, request_type, now,
                                   create_response(language, request_type, now),
                                   sendOk))
           /\ inbox' = [inbox EXCEPT ![sock] = Tail(@)]
    /\ UNCHANGED <<s_argv, ports, ensock, masock, gersock, cvars>>

\* texts longer than any the table renders: n times the letter x
LongText(n) == [i \in 1..n |-> 120]
LongTexts == { LongText(n) : n \in {241, 242, 256} }

\* server_handle for a valid request, with `text` in the place of the text
\* that tell_it_what_it_is renders
server_handle_text(now, sendOk, text) ==
    /\ s_pc = "for"
    /\ readable # <<>>
    /\ Answers(Head(readable))
    /\ LET sock == Head(readable)
           dgram == [Head(inbox[sock]) EXCEPT !.data = recvfrom(@)]
           language == get_language(sock)
           request_type == Shift8Add(dgram.data[5], dgram.data[6])
       IN  /\ after_body(loop_body(sock, dgram, language, request_type, now,
                                   encode_response(language, now, text), sendOk))
           /\ inbox' = [inbox EXCEPT ![sock] = Tail(@)]
    /\ UNCHANGED <<s_argv, ports, ensock, masock, gersock, cvars>>

---------------------------------------------------------------------------
(* The client process *)

NoClientSock == [state |-> "none", closes |-> 0, timeout |-> 0, recvs |-> 0]
NoAddress == [ip |-> <<>>, port |-> 0]
NoRecv == [kind |-> "none", packet |-> <<>>]

\* the client is not started (the server is checked alone)
ClientIdle ==
    /\ c_pc = "idle"
    /\ c_args = <<>>
    /\ c_request_type = 0
    /\ c_port = -1
    /\ c_address = NoAddress
    /\ c_sock = NoClientSock
    /\ c_sent = <<>>
    /\ c_recv = NoRecv
    /\ c_out = <<>>
    /\ c_exit = Running

\* the literal parts of the lines the client prints
TextColon == <<84, 101, 120, 116, 58, 32>>
DateColon == <<68, 97, 116, 101, 58, 32>>
TimeColon == <<84, 105, 109, 101, 58, 32>>
ResponseReceived == <<32, 114, 101, 115, 112, 111, 110, 115, 101, 32, 114, 101, 99, 101, 105, 118, 101, 100, 58>>

DateRequestSentTo == <<68, 97, 116, 101, 32, 114, 101, 113, 117, 101, 115, 116, 32, 115, 101, 110, 116, 32, 116, 111, 32>>
TimeRequestSentTo == <<84, 105, 109, 101, 32, 114, 101, 113, 117, 101, 115, 116, 32, 115, 101, 110, 116, 32, 116, 111, 32>>
\* "127.0.0.1", the address getaddrinfo resolves "localhost" to
Localhost == <<49, 50, 55, 46, 48, 46, 48, 46, 49>>

\* host names given on the command line: "localhost" "a..b"
Hlocalhost == <<108, 111, 99, 97, 108, 104, 111, 115, 116>>
HaDotDotb == <<97, 46, 46, 98>>

\* the lengths of the labels of a host name, str.split('.')
RECURSIVE label_lengths(_, _)
label_lengths(host, n) ==
    IF host = <<>> THEN <<n>>
    ELSE IF Head(host) = 46 THEN <<n>> \o label_lengths(Tail(host), 0)
    ELSE label_lengths(Tail(host), n + 1)

\* getaddrinfo encodes an ASCII host name with the idna codec, which raises
\* UnicodeError for an empty label before the last or a label of 64 or more
idna_encodes(host) ==
    LET labels == label_lengths(host, 0)
    IN  /\ \A i \in 1..(Len(labels) - 1) : 0 < labels[i] /\ labels[i] < 64
        /\ labels[Len(labels)] < 64

\* the process ends on an exception no handler catches: traceback on
\* stderr, status 1
Uncaught(exception) == [status |-> 1, msg |-> exception]

\* "date" "time" "Date" "TIME" "day"
Sdate == <<100, 97, 116, 101>>
Stime == <<116, 105, 109, 101>>
SDate == <<68, 97, 116, 101>>
STIME == <<84, 73, 77, 69>>
Sday == <<100, 97, 121>>

\* command lines the client is started with (sys.argv)
ClientArgvs == {
    <<"client.py", Sdate, Hlocalhost, P5000>>,
    <<"client.py", Stime, Hlocalhost, P1024>>,
    <<"client.py", SDate, Hlocalhost, P64000>>,
    <<"client.py", STIME, Hlocalhost, P05000>>,
    <<"client.py", Sday, Hlocalhost, P5000>>,
    <<"client.py", Sdate, Hlocalhost, P1023>>,
    <<"client.py", Sdate, Hlocalhost, P64001>>,
    <<"client.py", Stime, Hlocalhost, Pabc>>,
    <<"client.py", Stime, Hlocalhost, Pminus5>>,
    <<"client.py", Sdate, Hlocalhost, P0>>,
    <<"client.py", Stime, HaDotDotb, P5000>>,
    <<"client.py", Sdate, Hlocalhost>>,
    <<"client.py", Sdate, Hlocalhost, P5000, P5001>> }

\* language_select(language_type): the name, or None
language_select(language_type) ==
    IF language_type = 1 THEN <<69, 110, 103, 108, 105, 115, 104>>     \* English
    ELSE IF language_type = 2 THEN <<77, 257, 111, 114, 105>>          \* Ma(257)ori
    ELSE IF language_type = 3 THEN <<71, 101, 114, 109, 97, 110>>      \* German
    ELSE <<78, 111, 110, 101>>                                         \* None

\* process_packet without its comparison of the length with the length field
process_packet_no_length(received_packet) ==
    IF Len(received_packet) < MIN_RESPONSE_LEN
    THEN "ERROR: Packet is too small to be a DT_Response"
    ELSE LET magic_no == from_bytes(SubSeq(received_packet, 1, 2))
             packet_type == from_bytes(SubSeq(received_packet, 3, 4))
             language_type == from_bytes(SubSeq(received_packet, 5, 6))
             year == from_bytes(SubSeq(received_packet, 7, 8))
             month == received_packet[9]
             day == received_packet[10]
             hour == received_packet[11]
             minute == received_packet[12]
         IN  IF magic_no # MAGIC_NUM THEN "ERROR: Packet magic number is incorrect"
             ELSE IF packet_type # DT_RESPONSE THEN "ERROR: Packet is not a DT_Response"
             ELSE IF language_type \notin {1, 2, 3} THEN "ERROR: Packet has invalid language"
             ELSE IF year > MAX_YEAR THEN "ERROR: Packet has invalid year"
             ELSE IF month < 1 \/ month > 12 THEN "ERROR: Packet has invalid month"
             ELSE IF day < 1 \/ day > 31 THEN "ERROR: Packet has invalid day"
             ELSE IF hour < 0 \/ hour > 23 THEN "ERROR: Packet has invalid hour"
             ELSE IF minute < 0 \/ minute > 59 THEN "ERROR: Packet has invalid minute"
             ELSE ""

\* process_packet(received_packet) up to its call of print_packet_stuff:
\* the message it exits with, "" when it goes on
process_packet(received_packet) ==
    IF Len(received_packet) < MIN_RESPONSE_LEN
    THEN "ERROR: Packet is too small to be a DT_Response"
    ELSE LET magic_no == from_bytes(SubSeq(received_packet, 1, 2))
             packet_type == from_bytes(SubSeq(received_packet, 3, 4))
             language_type == from_bytes(SubSeq(received_packet, 5, 6))
             year == from_bytes(SubSeq(received_packet, 7, 8))
             month == received_packet[9]
             day == received_packet[10]
             hour == received_packet[11]
             minute == received_packet[12]
             length == received_packet[13]
         IN  IF magic_no # MAGIC_NUM THEN "ERROR: Packet magic number is incorrect"
             ELSE IF packet_type # DT_RESPONSE THEN "ERROR: Packet is not a DT_Response"
             ELSE IF language_type \notin {1, 2, 3} THEN "ERROR: Packet has invalid language"
             ELSE IF year > MAX_YEAR THEN "ERROR: Packet has invalid year"
             ELSE IF month < 1 \/ month > 12 THEN "ERROR: Packet has invalid month"
             ELSE IF day < 1 \/ day > 31 THEN "ERROR: Packet has invalid day"
             ELSE IF hour < 0 \/ hour > 23 THEN "ERROR: Packet has invalid hour"
             ELSE IF minute < 0 \/ minute > 59 THEN "ERROR: Packet has invalid minute"
             ELSE IF Len(received_packet) # 13 + length
                  THEN "ERROR: Packet text length is incorrect"
             ELSE ""

\* print_packet_stuff(received_packet): the message it exits with or the
\* lines it prints
print_packet_stuff(received_packet) ==
    LET language_type == from_bytes(SubSeq(received_packet, 5, 6))
        year == from_bytes(SubSeq(received_packet, 7, 8))
        month == received_packet[9]
        day == received_packet[10]
        hour == received_packet[11]
        minute == received_packet[12]
        text == decode_utf8(SubSeq(received_packet, 14, Len(received_packet)))
    IN  IF ~text.ok
        THEN [exit |-> "ERROR: Packet has invalid text", out |-> <<>>]
        ELSE [exit |-> "",
              out |-> << language_select(language_type) \o ResponseReceived,
                         TextColon \o text.text,
                         DateColon \o Str(day) \o <<47>> \o Str(month) \o <<47>> \o Str(year),
                         TimeColon \o Pad2(hour) \o <<58>> \o Pad2(minute) >>]

ClientInit ==
    /\ c_pc = "check_number_of_arguments"
    /\ c_args \in ClientArgvs
    /\ c_request_type = 0
    /\ c_port = -1
    /\ c_address = NoAddress
    /\ c_sock = NoClientSock
    /\ c_sent = <<>>
    /\ c_recv = NoRecv
    /\ c_out = <<>>
    /\ c_exit = Running

\* sys.exit(msg) in the client
client_exit(msg) ==
    /\ c_exit' = Exit(msg)
    /\ c_pc' = "exited"

\* check_number_of_arguments()
check_number_of_arguments ==
    /\ c_pc = "check_number_of_arguments"
    /\ IF Len(c_args) # 4
       THEN client_exit("ERROR: Incorrect number of command line arguments")
       ELSE c_pc' = "user_chooses_parameter" /\ UNCHANGED c_exit
    /\ UNCHANGED <<c_args, c_request_type, c_port, c_address, c_sock, c_sent,
                   c_recv, c_out, svars>>

\* user_chooses_parameter taking every word other than "date" for a time
\* request
user_chooses_parameter_default_time ==
    /\ c_pc = "user_chooses_parameter"
    /\ c_request_type' = IF lower(c_args[2]) = Sdate THEN REQUEST_DATE ELSE REQUEST_TIME
    /\ c_pc' = "check_hostname_and_port"
    /\ UNCHANGED <<c_exit, c_args, c_port, c_address, c_sock, c_sent, c_recv, c_out, svars>>

\* user_chooses_parameter()
user_chooses_parameter ==
    /\ c_pc = "user_chooses_parameter"
    /\ LET request_type_str == lower(c_args[2]) IN
       IF request_type_str = Sdate
       THEN /\ c_request_type' = REQUEST_DATE
            /\ c_pc' = "check_hostname_and_port"
            /\ UNCHANGED c_exit
       ELSE IF request_type_str = Stime
       THEN /\ c_request_type' = REQUEST_TIME
            /\ c_pc' = "check_hostname_and_port"
            /\ UNCHANGED c_exit
       ELSE /\ client_exit("ERROR: Request type is not valid")
            /\ UNCHANGED c_request_type
    /\ UNCHANGED <<c_args, c_port, c_address, c_sock, c_sent, c_recv, c_out, svars>>

\* check_hostname_and_port(); resolved is whether getaddrinfo found the host
\* (socket.gaierror when not)
check_hostname_and_port(resolved) ==
    /\ c_pc = "check_hostname_and_port"
    /\ LET port == int(c_args[4]) IN
       IF ~port.ok
       THEN /\ client_exit("ERROR: Given port is not a positive integer")
            /\ UNCHANGED <<c_port, c_address>>
       ELSE IF port.val < 0
       THEN /\ client_exit("ERROR: Given port is not a positive integer")
            /\ c_port' = port.val
            /\ UNCHANGED c_address
       ELSE IF port.val < MIN_PORT \/ port.val > MAX_PORT
       THEN /\ client_exit("ERROR: Given port is not in the range [1024, 64000]")
            /\ c_port' = port.val
            /\ UNCHANGED c_address
       ELSE IF ~idna_encodes(c_args[3])
       THEN \* UnicodeError is not socket.gaierror
            /\ c_exit' = Uncaught("UnicodeError")
            /\ c_pc' = "exited"
            /\ c_port' = port.val
            /\ UNCHANGED c_address
       ELSE IF ~resolved
       THEN /\ client_exit("ERROR: Hostname resolution failed")
            /\ c_port' = port.val
            /\ UNCHANGED c_address
       ELSE /\ c_port' = port.val
            /\ c_address' = [ip |-> Localhost, port |-> port.val]
            /\ c_pc' = "create_and_send_packet"
            /\ UNCHANGED c_exit
    /\ UNCHANGED <<c_args, c_request_type, c_sock, c_sent, c_recv, c_out, svars>>

\* socket.close()
close(sock) == [sock EXCEPT !.state = "closed", !.closes = @ + 1]

\* the handler of a failed sendto without its close
on_send_failure_leak(sock) == sock

\* create_and_send_packet, "except OSError" of sendto: self.sock.close()
on_send_failure(sock) == close(sock)

\* receive_and_process_response, "finally": self.sock.close()
finally_close(sock) == close(sock)

\* create_and_send_packet(); created and sendOk are the operating system's
\* answers to socket() and sendto()
create_and_send_packet(created, sendOk) ==
    /\ c_pc = "create_and_send_packet"
    /\ IF ~created
       THEN /\ client_exit("ERROR: Socket creation failed")
            /\ UNCHANGED <<c_sock, c_sent, c_out>>
       ELSE LET packet == request_packet(c_request_type)
                opened == [state |-> "open", closes |-> 0, timeout |-> 0, recvs |-> 0]
            IN  /\ c_sent' = Append(c_sent, [packet |-> packet, address |-> c_address])
                /\ IF sendOk
                   THEN /\ c_sock' = opened
                        /\ c_out' = Append(c_out,
                               (IF c_request_type = REQUEST_DATE
                                THEN DateRequestSentTo ELSE TimeRequestSentTo)
                               \o c_address.ip \o <<58>> \o Str(c_address.port))
                        /\ c_pc' = "receive_and_process_response"
                        /\ UNCHANGED c_exit
                   ELSE /\ c_sock' = on_send_failure(opened)
                        /\ client_exit("ERROR: Sending failed")
                        /\ UNCHANGED c_out
    /\ UNCHANGED <<c_args, c_request_type, c_port, c_address, c_recv, svars>>

\* receive_and_process_response calling recvfrom again after a timeout
receive_and_retry(received) ==
    /\ c_pc = "receive_and_process_response"
    /\ c_recv' = [received EXCEPT !.packet = recvfrom(@)]
    /\ IF received.kind = "timeout" /\ c_sock.recvs = 0
       THEN /\ c_sock' = [c_sock EXCEPT !.timeout = 1, !.recvs = @ + 1]
            /\ UNCHANGED <<c_pc, c_exit, c_out>>
       ELSE /\ c_sock' = finally_close([c_sock EXCEPT !.timeout = 1, !.recvs = @ + 1])
            /\ IF received.kind = "timeout"
               THEN client_exit("ERROR: Receiving timed out") /\ UNCHANGED c_out
               ELSE IF received.kind = "error"
               THEN client_exit("ERROR: Receiving failed") /\ UNCHANGED c_out
               ELSE LET rejected == process_packet(recvfrom(received.packet))
                        printed == print_packet_stuff(recvfrom(received.packet))
                    IN  IF rejected # ""
                        THEN client_exit(rejected) /\ UNCHANGED c_out
                        ELSE IF printed.exit # ""
                        THEN client_exit(printed.exit) /\ UNCHANGED c_out
                        ELSE /\ c_out' = c_out \o printed.out
                             /\ c_exit' = [status |-> 0, msg |-> ""]
                             /\ c_pc' = "exited"
    /\ UNCHANGED <<c_args, c_request_type, c_port, c_address, c_sent, svars>>

\* receive_and_process_response(); received is what recvfrom(1024) returns
\* or raises within the timeout of one second
receive_and_process_response(received) ==
    /\ c_pc = "receive_and_process_response"
    /\ c_recv' = [received EXCEPT !.packet = recvfrom(@)]
    /\ c_sock' = finally_close([c_sock EXCEPT !.timeout = 1, !.recvs = @ + 1])
    /\ IF received.kind = "timeout"
       THEN client_exit("ERROR: Receiving timed out") /\ UNCHANGED c_out
       ELSE IF received.kind = "error"
       THEN client_exit("ERROR: Receiving failed") /\ UNCHANGED c_out
       ELSE LET rejected == process_packet(recvfrom(received.packet))
                printed == print_packet_stuff(recvfrom(received.packet))
            IN  IF rejected # ""
                THEN client_exit(rejected) /\ UNCHANGED c_out
                ELSE IF printed.exit # ""
                THEN client_exit(printed.exit) /\ UNCHANGED c_out
                ELSE /\ c_out' = c_out \o printed.out
                     /\ c_exit' = [status |-> 0, msg |-> ""]
                     /\ c_pc' = "exited"
    /\ UNCHANGED <<c_args, c_request_type, c_port, c_address, c_sent, svars>>

\* a response of the server, the packet the corrupted ones are made from
BaseResponse == create_response("Maori", REQUEST_DATE, Time(2024, 11, 4, 9, 5)).response
Header(b) == SubSeq(b, 1, 12)

\* packets the network delivers to the client's socket
Replies ==
    \* what the server builds
    { create_response(l, k, now).response :
         l \in {"English", "Maori", "German"},
         k \in {REQUEST_DATE, REQUEST_TIME}, now \in Timestamps }
    \cup
    \* one field of a response changed
    { [BaseResponse EXCEPT ![f[1]] = f[2]] : f \in {
         <<2, 250>>, <<1, 0>>,                 \* magic
         <<4, 1>>, <<4, 3>>, <<3, 1>>,         \* packet type
         <<6, 0>>, <<6, 1>>, <<6, 3>>, <<6, 4>>, <<5, 1>>,  \* language
         <<7, 0>>, <<7, 8>>, <<7, 255>>,       \* year 232, 2280, 65512
         <<9, 0>>, <<9, 1>>, <<9, 12>>, <<9, 13>>,          \* month
         <<10, 0>>, <<10, 1>>, <<10, 31>>, <<10, 32>>,      \* day
         <<11, 0>>, <<11, 23>>, <<11, 24>>,                 \* hour
         <<12, 0>>, <<12, 59>>, <<12, 60>>,                 \* minute
         <<13, BaseResponse[13] - 1>>, <<13, BaseResponse[13] + 1>>,  \* text length
         <<Len(BaseResponse), 255>>,           \* last byte of the text not UTF-8
         <<22, 65>> } }                        \* a lead byte without its continuation
    \cup
    \* other lengths and texts
    { <<>>,
      request_packet(REQUEST_DATE),
      Header(BaseResponse),
      Header(BaseResponse) \o <<0>>,
      SubSeq(BaseResponse, 1, Len(BaseResponse) - 1),
      BaseResponse \o <<33>>,
      Header(BaseResponse) \o <<1, 196>>,                \* a lead byte alone
      Header(BaseResponse) \o <<2, 192, 128>>,           \* overlong form
      Header(BaseResponse) \o <<3, 237, 160, 128>>,      \* a surrogate
      Header(BaseResponse) \o <<3, 226, 130, 172>>,      \* U+20AC
      Header(BaseResponse) \o <<4, 240, 159, 152, 128>>, \* U+1F600
      Header(BaseResponse) \o <<4, 244, 144, 128, 128>> }  \* past U+10FFFF

\* what recvfrom returns or raises
Receptions ==
    { [kind |-> "timeout", packet |-> <<>>], [kind |-> "error", packet |-> <<>>] }
    \cup { [kind |-> "packet", packet |-> p] : p \in Replies }

---------------------------------------------------------------------------
(* Specifications *)

Init == ServerInit /\ ClientIdle

ServerNext ==
    \/ server_main
    \/ server_check_port
    \/ \E i \in 1..3, created \in BOOLEAN, bindOk \in BOOLEAN :
          open_and_bind_socket(i, created, bindOk)
    \/ \E h \in Handles, dgram \in Arrivals : Arrive(h, dgram)
    \/ server_select
    \/ server_recv_error
    \/ \E now \in Timestamps, sendOk \in BOOLEAN : server_handle(now, sendOk)

Next == ServerNext

\* the server process and the network that feeds it
Spec == Init /\ [][Next]_vars

InitClient == ServerIdle /\ ClientInit

ClientNext ==
    \/ check_number_of_arguments
    \/ user_chooses_parameter
    \/ \E resolved \in BOOLEAN : check_hostname_and_port(resolved)
    \/ \E created \in BOOLEAN, sendOk \in BOOLEAN : create_and_send_packet(created, sendOk)
    \/ \E received \in Receptions : receive_and_process_response(received)

\* one invocation of the client and the network that answers it
SpecClient == InitClient /\ [][ClientNext]_vars


\* the client under its scheduling: main() runs its calls one after the
\* other, none of them waits for ever (recvfrom returns or raises within the
\* timeout), so a step that can be taken is taken
SpecClientLive == SpecClient /\ WF_vars(ClientNext)

\* the server in an environment where select() can fail
NextFatal ==
    \/ ServerNext
    \/ server_select_error

SpecFatal == Init /\ [][NextFatal]_vars

\* the server fed with bursts: several datagrams are queued, on one socket
\* or on several, before the loop reads the first
NextBurst ==
    \/ server_main
    \/ server_check_port
    \/ \E i \in 1..3, created \in BOOLEAN, bindOk \in BOOLEAN :
          open_and_bind_socket(i, created, bindOk)
    \/ \E h \in Handles, dgram \in BurstArrivals : ArriveBurst(h, dgram)
    \/ server_select
    \/ server_recv_error
    \/ \E now \in {NoClock, Time(2024, 11, 4, 9, 5)}, sendOk \in BOOLEAN : server_handle(now, sendOk)

SpecBurst == Init /\ [][NextBurst]_vars

\* the server with the rendered text left open: every step of Spec, and
\* the steps that answer a valid request with a longer text
NextAnyText ==
    \/ ServerNext
    \/ \E sendOk \in BOOLEAN, text \in LongTexts : server_handle_text(NoClock, sendOk, text)

SpecAnyText == Init /\ [][NextAnyText]_vars

---------------------------------------------------------------------------
(* The claims *)

\* the four checks of a request, on the bytes of the datagram
PassesRequestChecks(d) ==
    /\ Len(d) = 6
    /\ from_bytes(SubSeq(d, 1, 2)) = 14075
    /\ from_bytes(SubSeq(d, 3, 4)) = 1
    /\ from_bytes(SubSeq(d, 5, 6)) \in {1, 2}

\* the loop has read a datagram from a socket and handled it
ReadDatagram == last.outcome \notin {"none", "recv_error"}

\* C1: a datagram read from any of the three sockets that fails one of the
\* four request checks (length 6, magic 0x36FB, packet type 1, request kind
\* 1 or 2) causes no sendto; sendto is called only for a datagram that
\* passes all four.
C1_SendOnlyForValidRequest ==
    ReadDatagram =>
        /\ ~PassesRequestChecks(last.data) => last.sendto = <<>> /\ last.outcome = "dropped"
        /\ last.sendto # <<>> => PassesRequestChecks(last.data)

\* a six-byte datagram with a wrong request kind was read and dropped
C1_Witness ==
    /\ last.outcome = "dropped"
    /\ Len(last.data) = 6
    /\ last.sock \in Handles
    /\ last.sendto = <<>>

AllSocketsOpen ==
    /\ sockets = <<1, 2, 3>>
    /\ \A h \in Handles : sockstate[h].state = "bound" /\ sockstate[h].closes = 0

\* C2: once the server has dropped an invalid datagram it is still in its
\* loop, running, with its three sockets open, and a valid request it reads
\* from then on is handed a response to sendto (which is sent when sendto
\* succeeds).
C2_ServesAfterDrop ==
    droppedInvalid =>
        /\ s_pc \in {"select", "for"}
        /\ s_exit = Running
        /\ AllSocketsOpen
        /\ (ReadDatagram /\ PassesRequestChecks(last.data)) =>
              /\ Len(last.sendto) = 1
              /\ last.outcome \in {"sent", "send_error"}

\* after a drop, a valid request read from the German socket was answered
C2_Witness ==
    /\ droppedInvalid
    /\ last.outcome = "sent"
    /\ last.sock = 3
    /\ PassesRequestChecks(last.data)

\* the language code of the channel a socket belongs to: 1 for the socket
\* bound to the first port argument (English), 2 for the second (Maori), 3
\* for the third (German)
ChannelCode(sock) == CHOOSE i \in 1..3 : ports[i] = sockstate[sock].port

\* C3: every response handed to sendto carries the language code of the
\* channel the request was read from (English 1, Maori 2, German 3), is sent
\* through the socket the request was read from, and is addressed to the
\* sender of the request.
C3_ResponseLanguageOfChannel ==
    \A i \in 1..Len(last.sendto) :
        /\ from_bytes(SubSeq(last.sendto[i].packet, 5, 6)) = ChannelCode(last.sock)
        /\ last.sendto[i].sock = last.sock
        /\ last.sendto[i].address = last.address

\* a request of sender B read from the Maori socket was answered in Maori
C3_Witness ==
    /\ last.outcome = "sent"
    /\ last.sock = 2
    /\ sockstate[2].port = ports[2]
    /\ last.address = "B"
    /\ last.sendto[1].packet[6] = 2

\* C4: the client closes its socket exactly once on every exit path after
\* the socket was created (send failure, receive timeout, receive error,
\* response rejected, completion): it is never closed twice, and at the end
\* of the process it is closed.
C4_SocketClosedOnce ==
    /\ c_sock.closes <= 1
    /\ (c_pc = "exited" /\ c_sock.state # "none") =>
          c_sock.state = "closed" /\ c_sock.closes = 1

\* the session ended on a failed sendto, with the socket closed once
C4_Witness ==
    /\ c_pc = "exited"
    /\ c_exit.msg = "ERROR: Sending failed"
    /\ c_sock.closes = 1

\* C6: every datagram the server hands to sendto is shorter than 255 bytes.
C6_SentShorterThan255 ==
    \A i \in 1..Len(last.sendto) : Len(last.sendto[i].packet) < 255

\* a response built from the rendered text was sent
C6_Witness ==
    /\ last.outcome = "sent"
    /\ last.sendto[1].packet =
          create_response(last.language, last.request_type, last.now).response

\* the conditions under which a received packet is a well-formed response
AcceptableResponse(p) ==
    /\ Len(p) >= 13
    /\ p[1] * 256 + p[2] = 14075
    /\ p[3] * 256 + p[4] = 2
    /\ p[5] * 256 + p[6] \in {1, 2, 3}
    /\ p[7] * 256 + p[8] <= 2100
    /\ 1 <= p[9] /\ p[9] <= 12
    /\ 1 <= p[10] /\ p[10] <= 31
    /\ p[11] <= 23
    /\ p[12] <= 59
    /\ Len(p) = 13 + p[13]
    /\ decode_utf8(SubSeq(p, 14, Len(p))).ok

\* C7: the client accepts a received packet (it completes with status 0,
\* having printed the decoded response) exactly when the packet has at
\* least 13 bytes, magic 0x36FB, packet type 2, a language code in 1..3,
\* year <= 2100, month in 1..12, day in 1..31, hour <= 23, minute <= 59, a
\* length of 13 + textLength and a text that is valid UTF-8; in every other
\* case it fails with status 1 and prints nothing of the response.
C7_AcceptsExactlyWellFormed ==
    c_recv.kind = "packet" =>
        IF AcceptableResponse(c_recv.packet)
        THEN /\ c_exit.status = 0
             /\ Len(c_out) = 5
             /\ c_out[3] = TextColon \o decode_utf8(SubSeq(c_recv.packet, 14, Len(c_recv.packet))).text
        ELSE /\ c_exit.status = 1
             /\ Len(c_out) = 1

\* a response of the year 2100 was accepted and printed
C7_Witness ==
    /\ c_recv.kind = "packet"
    /\ c_pc = "exited"
    /\ c_exit.status = 0
    /\ Len(c_recv.packet) > 13
    /\ c_recv.packet[7] * 256 + c_recv.packet[8] = 2100
    /\ Len(c_out) = 5

\* the number of bytes UTF-8 takes for a text, counted per code point
RECURSIVE ByteLength(_)
ByteLength(text) ==
    IF text = <<>> THEN 0
    ELSE (IF Head(text) < 128 THEN 1 ELSE IF Head(text) < 2048 THEN 2
          ELSE IF Head(text) < 65536 THEN 3 ELSE 4)
         + ByteLength(Tail(text))

\* the text rendered for the request handled last
RenderedText == tell_it_what_it_is(last.now, last.language, last.request_type).text

\* C8: in the response the server builds for a language, request kind and
\* timestamp, the byte at offset 12 is the number of bytes of the rendered
\* text in UTF-8, and the packet is 13 bytes longer than that.
C8_TextLengthField ==
    last.response # <<>> =>
        /\ last.response[13] = ByteLength(RenderedText)
        /\ Len(last.response) = 13 + last.response[13]

\* a Maori date, whose text has more bytes than characters, was built
C8_Witness ==
    /\ last.response # <<>>
    /\ last.language = "Maori"
    /\ last.request_type = REQUEST_DATE
    /\ ByteLength(RenderedText) > Len(RenderedText)
    /\ last.response[13] > Len(RenderedText)

\* C9: the six-byte packet the client builds for DATE and for TIME passes
\* the four checks of the server, and the request kind the server takes
\* from bytes 4-5 is the kind the client encoded.
C9_RequestRoundTrip ==
    \A k \in {REQUEST_DATE, REQUEST_TIME} :
        /\ Len(request_packet(k)) = 6
        /\ (ReadDatagram /\ last.data = request_packet(k)) =>
              /\ last.outcome # "dropped"
              /\ last.request_type = k

\* the client's TIME request was read and taken for a TIME request
C9_Witness ==
    /\ ReadDatagram
    /\ last.data = request_packet(REQUEST_TIME)
    /\ last.request_type = REQUEST_TIME
    /\ last.outcome = "sent"

\* the argument is the text of an integer in [1024, 64000]
DenotesPort(arg) == int(arg).ok /\ 1024 <= int(arg).val /\ int(arg).val <= 64000

\* port validation has passed: the server is past check_port
PortsValidated ==
    \/ s_pc \in {"bind_1", "bind_2", "bind_3", "select", "for"}
    \/ \E h \in Handles : sockstate[h].state # "none"

\* C10: port validation passes, and a socket is opened, only when the three
\* port arguments denote pairwise distinct integers in [1024, 64000]; two
\* arguments that denote the same port, however they are spelled, are
\* rejected before any socket is opened.
C10_ValidatedPortsDistinct ==
    PortsValidated =>
        /\ Len(s_argv) = 3
        /\ \A i \in 1..3 : DenotesPort(s_argv[i])
        /\ \A i, j \in 1..3 : i # j => int(s_argv[i]).val # int(s_argv[j]).val

\* the process ended in open_and_bind_socket
StartupFailed ==
    /\ s_pc = "exited"
    /\ s_exit.msg \in {"ERROR: Socket creation failed", "ERROR: Socket binding failed"}

\* C11: when creating or binding one of the three sockets fails (English,
\* then Maori, then German), every socket opened so far has been closed,
\* once, when the process ends, and the loop is never entered: nothing was
\* selected or read, and the process takes no step after the failure.
C11_StartupFailureClosesSockets ==
    /\ [](StartupFailed =>
            /\ \A h \in Handles : sockstate[h].state \in {"none", "closed"}
            /\ \A h \in Handles : sockstate[h].state = "closed" => sockstate[h].closes = 1
            /\ s_exit.status = 1
            /\ readable = <<>>
            /\ last = NoLast)
    /\ [][~StartupFailed]_vars

\* the Maori socket could not be bound: it and the bound English socket are
\* closed, the German socket was never created
C11_Witness ==
    /\ StartupFailed
    /\ s_exit.msg = "ERROR: Socket binding failed"
    /\ sockstate[1].state = "closed" /\ sockstate[1].port = ports[1]
    /\ sockstate[2].state = "closed" /\ sockstate[2].port = 0
    /\ sockstate[3].state = "none"

\* how a session of the client ended
Completed ==
    c_exit.status = 0 /\ c_sock.recvs = 1 /\ c_recv.kind = "packet" /\ Len(c_out) = 5
TimedOut ==
    c_exit.status # 0 /\ c_sock.recvs = 1 /\ c_recv.kind = "timeout"
Failed ==
    c_exit.status # 0 /\ c_recv.kind # "timeout" /\ Len(c_out) <= 1

\* C12: a session of the client hands at most one datagram to sendto and
\* calls recvfrom at most once, with the timeout of one second set; when
\* the process has ended it has ended in exactly one of Completed, TimedOut
\* and Failed and takes no further step (no retry); and every session ends.
C12_OneAttemptThenTerminates ==
    /\ [](/\ Len(c_sent) <= 1
          /\ c_sock.recvs <= 1
          /\ c_sock.recvs = 1 => c_sock.timeout = 1 /\ Len(c_sent) = 1
          /\ c_pc = "exited" =>
                /\ Completed \/ TimedOut \/ Failed
                /\ ~(Completed /\ TimedOut) /\ ~(Completed /\ Failed) /\ ~(TimedOut /\ Failed))
    /\ [][c_pc # "exited"]_vars
    /\ <>(c_pc = "exited")

\* the one receive timed out and the session ended TimedOut, one datagram sent
C12_Witness ==
    /\ c_pc = "exited"
    /\ TimedOut
    /\ c_exit.msg = "ERROR: Receiving timed out"
    /\ Len(c_sent) = 1
    /\ c_sock.recvs = 1
    /\ c_sock.state = "closed"

\* the process ended after all three sockets had been bound, that is, from
\* the loop
TerminatedFromLoop ==
    s_pc = "exited" /\ \A h \in Handles : sockstate[h].port # 0

\* C13: in the loop, a turn of "for sock in readable" (an invalid datagram,
\* a failed recvfrom, a failed sendto, an answered request) never ends the
\* process nor touches a socket; the process leaves the loop only through
\* the handler of an unrecognized exception; and when it has left the loop
\* every socket is closed and was closed once.
C13_LoopEndsOnlyOnFatal ==
    /\ [](TerminatedFromLoop =>
            /\ s_exit = Exit("ERROR: exception")
            /\ \A h \in Handles : sockstate[h].state = "closed" /\ sockstate[h].closes = 1)
    /\ [](\A h \in Handles : sockstate[h].closes <= 1)
    /\ [][(s_pc = "for" /\ readable' # readable) =>
            /\ s_pc' \in {"for", "select"}
            /\ s_exit' = Running
            /\ sockstate' = sockstate
            /\ last'.outcome \in {"dropped", "recv_error", "send_error", "sent"}]_vars

\* a sendto failed, the loop went on, and later a failing select ended the
\* process with the three sockets closed once
C13_Witness ==
    /\ TerminatedFromLoop
    /\ last.outcome = "send_error"
    /\ droppedInvalid
    /\ s_exit.msg = "ERROR: exception"
    /\ \A h \in Handles : sockstate[h].state = "closed" /\ sockstate[h].closes = 1

\* C20: while the server is in its loop, self.sockets is the list of the
\* three sockets (English, Maori, German), each bound to its port and never
\* closed; a turn of the loop that does not end the process leaves the list
\* and the sockets as they are; and the list becomes empty only in the step
\* that ends the process.
C20_SocketSetInvariant ==
    /\ [](s_pc \in {"select", "for"} =>
            /\ sockets = <<ensock, masock, gersock>>
            /\ Cardinality({ensock, masock, gersock}) = 3
            /\ \A i \in 1..3 :
                  /\ sockstate[sockets[i]].state = "bound"
                  /\ sockstate[sockets[i]].port = ports[i]
                  /\ sockstate[sockets[i]].closes = 0
            /\ \A i \in 1..Len(readable) : \E j \in 1..3 : readable[i] = sockets[j])
    /\ [][(s_pc \in {"select", "for"} /\ s_pc' # "exited") =>
             sockets' = sockets /\ sockstate' = sockstate]_vars
    /\ [][(sockets # <<>> /\ sockets' = <<>>) => s_pc' = "exited"]_vars

\* after a dropped datagram and a failed recvfrom the loop waits in select
\* with its three sockets bound
C20_Witness ==
    /\ s_pc = "select"
    /\ last.outcome = "recv_error"
    /\ droppedInvalid
    /\ sockets = <<1, 2, 3>>
    /\ \A h \in Handles : sockstate[h].state = "bound"

\* the position of the client in the order of its steps
StepRank(pc) ==
    CASE pc = "check_number_of_arguments" -> 1
      [] pc = "user_chooses_parameter" -> 2
      [] pc = "check_hostname_and_port" -> 3
      [] pc = "create_and_send_packet" -> 4
      [] pc = "receive_and_process_response" -> 5
      [] OTHER -> 6

\* the word is `letters` up to the case of its letters
SameWord(word, letters) ==
    /\ Len(word) = Len(letters)
    /\ \A i \in 1..Len(letters) : word[i] = letters[i] \/ word[i] = letters[i] - 32

\* the command line names a request kind and a port in range, and the host
\* was resolved to an address with that port
ArgumentsAccepted ==
    /\ Len(c_args) = 4
    /\ SameWord(c_args[2], <<100, 97, 116, 101>>) \/ SameWord(c_args[2], <<116, 105, 109, 101>>)
    /\ DenotesPort(c_args[4])
    /\ c_address.ip # <<>>
    /\ c_address.port = int(c_args[4]).val

\* C14: the client goes through its steps in the order argument count,
\* request kind, port and host, send, receive, each at most once; a socket
\* exists or a datagram was handed to sendto only if the request kind is
\* date or time in any case, the port is an integer in [1024, 64000] and the
\* host was resolved; a step that fails ends the process with a status
\* other than 0 and with nothing of the later steps done.
C14_StepsInOrder ==
    /\ []((c_sock.state # "none" \/ c_sent # <<>>) => ArgumentsAccepted)
    /\ [][/\ c_pc # "exited"
          /\ StepRank(c_pc') = StepRank(c_pc) + 1 \/ c_pc' = "exited"
          /\ (c_pc' = "exited" /\ StepRank(c_pc) <= 4) => c_exit'.status # 0
          /\ (c_pc' = "exited" /\ StepRank(c_pc) <= 2) => c_port' = -1
          /\ (c_pc' = "exited" /\ StepRank(c_pc) <= 3) =>
                c_address' = NoAddress /\ c_sock' = NoClientSock /\ c_sent' = <<>>
          /\ (c_pc' = "exited" /\ StepRank(c_pc) <= 4) =>
                c_recv' = NoRecv /\ c_sock'.recvs = 0 /\ Len(c_out') = 0]_vars

\* the host was not resolved: the process ended with the port taken from
\* the command line, no socket and nothing sent
C14_Witness ==
    /\ c_pc = "exited"
    /\ c_exit.msg = "ERROR: Hostname resolution failed"
    /\ c_port = 5000
    /\ c_address = NoAddress
    /\ c_sock = NoClientSock
    /\ c_sent = <<>>

\* C15: a step of the server reads at most one datagram, the one at the
\* head of the first socket select reported and not yet served, and that
\* step handles it to the end: what the loop did is recorded for that
\* datagram, with one call of sendto when it passes the request checks and
\* none when it does not, while the datagrams queued behind it stay queued.
C15_OneDatagramAtATime ==
    [][inbox' # inbox /\ Len(inbox'[1]) + Len(inbox'[2]) + Len(inbox'[3]) <= Pending =>
         \E h \in Handles :
            /\ inbox[h] # <<>>
            /\ inbox' = [inbox EXCEPT ![h] = Tail(@)]
            /\ readable # <<>> /\ h = Head(readable)
            /\ readable' = Tail(readable)
            /\ last'.sock = h
            /\ last'.data = Head(inbox[h]).data
            /\ last'.address = Head(inbox[h]).address
            /\ Len(last'.sendto) = IF PassesRequestChecks(Head(inbox[h]).data) THEN 1 ELSE 0
            /\ \A i \in 1..Len(last'.sendto) : last'.sendto[i].address = Head(inbox[h]).address]_vars

\* a request read from one socket was answered and the loop is about to
\* read from the next socket select reported, while a datagram is queued on
\* each of the two sockets
C15_Witness ==
    /\ s_pc = "for"
    /\ last.outcome = "sent"
    /\ Len(last.sendto) = 1
    /\ inbox[last.sock] # <<>>
    /\ readable # <<>>
    /\ Head(readable) # last.sock
    /\ inbox[Head(readable)] # <<>>

\* the checks a datagram fails, numbered in the order length, magic number,
\* packet type, request kind; a field is read only from a datagram that has
\* it
FailedChecks(d) ==
    (IF Len(d) # 6 THEN {1} ELSE {})
    \cup (IF Len(d) >= 2 /\ from_bytes(SubSeq(d, 1, 2)) # 14075 THEN {2} ELSE {})
    \cup (IF Len(d) >= 4 /\ from_bytes(SubSeq(d, 3, 4)) # 1 THEN {3} ELSE {})
    \cup (IF Len(d) >= 6 /\ from_bytes(SubSeq(d, 5, 6)) \notin {1, 2} THEN {4} ELSE {})

\* the line logged for a failed check
RejectionReason ==
    << "ERROR: Packet length incorrect for a DT_Request, dropping packet",
       "ERROR: Packet magic number is incorrect, dropping packet",
       "ERROR: Packet is not a DT_Request, dropping packet",
       "ERROR: Packet has invalid type, dropping packet" >>

\* C16: a datagram that fails one or more of the request checks is dropped
\* with exactly one line logged, the reason of the first check it fails in
\* the order length, magic number, packet type, request kind.
C16_FirstFailingCheckLogged ==
    (ReadDatagram /\ FailedChecks(last.data) # {}) =>
        /\ last.outcome = "dropped"
        /\ last.log =
             << <<RejectionReason[CHOOSE c \in FailedChecks(last.data) :
                                     \A e \in FailedChecks(last.data) : c <= e]>> >>

\* a six-byte datagram with a wrong magic number, packet type and request
\* kind was dropped for its magic number
C16_Witness ==
    /\ last.outcome = "dropped"
    /\ FailedChecks(last.data) = {2, 3, 4}
    /\ last.log = << <<"ERROR: Packet magic number is incorrect, dropping packet">> >>

\* the messages the client exits with through sys.exit("ERROR: ...")
ClientErrorMessages ==
    { "ERROR: Incorrect number of command line arguments",
      "ERROR: Request type is not valid",
      "ERROR: Given port is not a positive integer",
      "ERROR: Given port is not in the range [1024, 64000]",
      "ERROR: Hostname resolution failed",
      "ERROR: Socket creation failed",
      "ERROR: Sending failed",
      "ERROR: Receiving timed out",
      "ERROR: Receiving failed",
      "ERROR: Packet is too small to be a DT_Response",
      "ERROR: Packet magic number is incorrect",
      "ERROR: Packet is not a DT_Response",
      "ERROR: Packet has invalid language",
      "ERROR: Packet has invalid year",
      "ERROR: Packet has invalid month",
      "ERROR: Packet has invalid day",
      "ERROR: Packet has invalid hour",
      "ERROR: Packet has invalid minute",
      "ERROR: Packet text length is incorrect",
      "ERROR: Packet has invalid text" }

\* C18: the client ends with status 0 only when a response was received,
\* passed every check and was printed; every other end (argument error,
\* host not resolved, socket or send failure, timeout, receive error,
\* rejected response) has a status other than 0 and one of the client's
\* "ERROR: ..." messages.
C18_ZeroStatusOnlyWhenCompleted ==
    c_pc = "exited" =>
        /\ c_exit.status = 0 <=>
              (c_recv.kind = "packet" /\ AcceptableResponse(c_recv.packet) /\ Len(c_out) = 5)
        /\ c_exit.status # 0 => c_exit.msg \in ClientErrorMessages

\* C19: every response the server sends, whatever the time of
\* the server's clock, passes the checks of the client's process_packet and
\* print_packet_stuff, its year, month, day, hour and minute lying in the
\* ranges the client accepts.
C19_SentResponseAcceptedByClient ==
    last.outcome = "sent" =>
        \A i \in 1..Len(last.sendto) :
            LET p == recvfrom(last.sendto[i].packet) IN
            /\ process_packet(p) = ""
            /\ print_packet_stuff(p).exit = ""
            /\ from_bytes(SubSeq(p, 7, 8)) <= 2100
            /\ p[9] \in 1..12 /\ p[10] \in 1..31 /\ p[11] \in 0..23 /\ p[12] \in 0..59

=============================================================================
